---- MODULE Spec2Model ----
(***************************************************************************)
(* WHIPClient (src/unnamed/part_000): a WebRTC publishing client that      *)
(* acquires local media, negotiates over WHIP and tears the session down.  *)
(* The browser runs every callback to completion, so each action below is  *)
(* one callback (with the microtasks it schedules); the suspension points  *)
(* are the awaits on getUserMedia/getDisplayMedia, fetch and the           *)
(* negotiation engine.                                                     *)
(***************************************************************************)
EXTENDS Integers, Sequences, FiniteSets, TLC

\* Bounds on the environment's inputs.
MaxExplicitCalls == 1      \* disconnectStream() calls made by the owner of the client
MaxNegotiations == 2       \* negotiationneeded events delivered to the listener
MaxCandidates == 1         \* local ICE candidates arriving after the answer was applied
MaxChannels == 3           \* length of StreamContainer's channels list
MaxEntries == 2            \* entries passed to one intersection callback
MaxLoadMore == 2           \* loadMore events dispatched by StreamContainer

TrackTypes == {"screen", "webcam", "audio", "camera"}
\* Variant: every trackType is taken to have a capture branch.
KnownTypesAll == TrackTypes

KnownTypes == {"screen", "webcam", "audio"}
TrackIds == {"v", "a", "s"}   \* captured video, captured audio, synthesized silent audio

VARIABLES
  trackType,     \* constructor argument trackType
  pcClosed,      \* peerConnection has been close()d
  transceivers,  \* peerConnection's transceivers, in the order they were added
  tracks,        \* readyState of each media track: "none" (not created), "live", "ended"
  acq,           \* accessLocalMediaSources promise: "pending", "resolved", "rejected", "threw"
  localStream,   \* this.localStream: "unset", "undefined" or "stream"
  streamTracks,  \* tracks of the captured MediaStream, in getTracks() order
  srcObject,     \* videoElement.srcObject: "unset", "undefined", "stream" or "null"
  endedOn,       \* track carrying the 'ended' listener, "none" if not registered
  calls,         \* disconnectStream invocations, in call order
  negs,          \* negotiateConnectionWithClientOffer invocations, in call order
  resourceUrl,   \* resource URL the negotiation engine learned, "none" if none
  posts,         \* number of POST requests sent to the endpoint
  events,        \* events the client has dispatched, in order
  neededEvents,  \* number of negotiationneeded events delivered to the listener
  etag,          \* ETag of the last 201 answer: "unknown" (no answer yet), "present", "absent"
  candidates,    \* number of local ICE candidates that arrived after the answer was applied
  patches,       \* number of PATCH requests sent to the resource URL
  channels,      \* StreamContainer: the channels prop, as the list of the channels' _id
  channel,       \* StreamContainer: the channel prop, as its _id, "undefined" if undefined
  loadMore,      \* StreamContainer: number of loadMore events dispatched
  navigated      \* StreamContainer: target of the last goto, "none" before the first

vars == <<trackType, pcClosed, transceivers, tracks, acq, localStream, streamTracks,
          srcObject, endedOn, calls, negs, resourceUrl, posts, events,
          neededEvents, etag, candidates, patches,
          channels, channel, loadMore, navigated>>

\* State of the StreamContainer component.
scrollVars == <<channels, channel, loadMore, navigated>>

\* State of the negotiation engine's trickle phase.
trickleVars == <<etag, candidates, patches>>

\* One effect of a disconnectStream invocation: an HTTP request, a release or an event.
Entry(op, arg) == [op |-> op, arg |-> arg]

KindOf(t) == IF t = "v" THEN "video" ELSE "audio"

Transceiver(t) == [kind |-> KindOf(t), track |-> t, direction |-> "sendonly"]

RECURSIVE AddTransceivers(_, _)
AddTransceivers(trs, ts) ==
  IF ts = <<>> THEN trs
  ELSE AddTransceivers(Append(trs, Transceiver(Head(ts))), Tail(ts))

\* The tracks of the stream the capture request resolves with.
CapturedTracks(type, hasAudio) ==
  CASE type = "screen" -> IF hasAudio THEN <<"a", "v">> ELSE <<"v">>
    [] type = "webcam" -> <<"v">>
    [] type = "audio"  -> <<"a">>
    [] OTHER -> <<>>

HasAudioTrack(ts) == \E k \in 1..Len(ts) : KindOf(ts[k]) = "audio"

\* Variant: the silent audio track is synthesized for every screen capture.
NeedsSynthAudioAlways(type, ts) == type = "screen"

\* Screen capture: a silent audio track is synthesized when the capture has none.
NeedsSynthAudio(type, ts) == type = "screen" /\ ~HasAudioTrack(ts)

\* Transceivers the acquisition callback adds for a captured stream.
AcquiredTransceivers(type, ts) ==
  AddTransceivers(IF NeedsSynthAudio(type, ts) THEN <<Transceiver("s")>> ELSE <<>>, ts)

\* Variant: isScreenLive is dispatched whatever the video track's ready state.
DispatchesScreenLiveUnchecked(type, videoLive) == type = "screen"

\* The acquisition callback dispatches isScreenLive: screen branch, video track live.
DispatchesScreenLive(type, videoLive) == type = "screen" /\ videoLive

\* Track the 'ended' listener is registered on.
EndedListenerTrack(type) == IF type = "audio" THEN "a" ELSE "v"

NegotiationCompleted == \E n \in 1..Len(negs) : negs[n].st = "done"

\* The client right after its constructor has returned.
ClientInit ==
  /\ trackType \in TrackTypes
  /\ pcClosed = FALSE
  /\ transceivers = <<>>
  /\ tracks = [t \in TrackIds |-> "none"]
  /\ acq = "pending"
  /\ localStream = "unset"
  /\ streamTracks = <<>>
  /\ srcObject = "unset"
  /\ endedOn = "none"
  /\ calls = <<>>
  /\ negs = <<>>
  /\ resourceUrl = "none"
  /\ posts = 0
  /\ events = <<>>
  /\ neededEvents = 0
  /\ etag = "unknown"
  /\ candidates = 0
  /\ patches = 0

Init ==
  /\ ClientInit
  /\ channels = <<>>
  /\ channel = "undefined"
  /\ loadMore = 0
  /\ navigated = "none"

(***************************************************************************)
(* disconnectStream                                                        *)
(***************************************************************************)

\* The request disconnectStream sends before anything else.
DeleteRequest == Entry("DELETE", "endpoint")

\* disconnectStream up to its await: the new invocation with the request it has sent.
CallsAfterStart(src) ==
  Append(calls, [src |-> src, st |-> "awaitDelete",
                 early |-> ~NegotiationCompleted, steps |-> <<DeleteRequest>>])

\* Variant: disconnectStream stops no track.
LocalStreamTracksNone == <<>>

\* Tracks that this.localStream?.getTracks() yields.
LocalStreamTracks == IF localStream = "stream" THEN streamTracks ELSE <<>>

StopEntries(ts) == [k \in 1..Len(ts) |-> Entry("stop", ts[k])]

StoppedEvent == "localStreamStopped-" \o trackType

\* Variant: the tracks are stopped before the peer connection is closed.
TeardownStepsStopFirst(ts) ==
  StopEntries(ts) \o <<Entry("close", "pc")>>
    \o <<Entry("srcObject", "null"), Entry("event", StoppedEvent)>>

\* Variant: the stopped event is dispatched before anything is released.
TeardownStepsEventFirst(ts) ==
  <<Entry("event", StoppedEvent), Entry("close", "pc")>> \o StopEntries(ts)
    \o <<Entry("srcObject", "null")>>

\* The statements of disconnectStream after the await, in program order.
TeardownSteps(ts) ==
  <<Entry("close", "pc")>> \o StopEntries(ts)
    \o <<Entry("srcObject", "null"), Entry("event", StoppedEvent)>>

\* The fetch promise rejects only on a network error; an error status resolves it.
FetchRejects(outcome) == outcome = "reject"

\* A caller other than the client's own callbacks invokes disconnectStream().
Disconnect ==
  /\ Cardinality({i \in 1..Len(calls) : calls[i].src = "explicit"}) < MaxExplicitCalls
  /\ calls' = CallsAfterStart("explicit")
  /\ UNCHANGED <<trackType, pcClosed, transceivers, tracks, acq, localStream,
                 streamTracks, srcObject, endedOn, negs, resourceUrl, posts, events>>
  /\ UNCHANGED <<neededEvents, trickleVars, scrollVars>>

\* The 'ended' event of the track carrying the listener: the listener calls disconnectStream().
TrackEnded ==
  /\ endedOn # "none"
  /\ tracks[endedOn] = "live"
  /\ tracks' = [tracks EXCEPT ![endedOn] = "ended"]
  /\ calls' = CallsAfterStart("ended")
  /\ UNCHANGED <<trackType, pcClosed, transceivers, acq, localStream, streamTracks,
                 srcObject, endedOn, negs, resourceUrl, posts, events>>
  /\ UNCHANGED <<neededEvents, trickleVars, scrollVars>>

\* The DELETE of invocation i settles and the rest of disconnectStream runs.
DeleteSettle(i, outcome) ==
  /\ calls[i].st = "awaitDelete"
  /\ IF FetchRejects(outcome)
       THEN /\ calls' = [calls EXCEPT ![i].st = "threw"]
            /\ UNCHANGED <<pcClosed, tracks, srcObject, events>>
       ELSE /\ calls' = [calls EXCEPT ![i].st = "done",
                                      ![i].steps = @ \o TeardownSteps(LocalStreamTracks)]
            /\ pcClosed' = TRUE
            /\ tracks' = [t \in TrackIds |->
                            IF \E k \in 1..Len(LocalStreamTracks) : LocalStreamTracks[k] = t
                              THEN "ended" ELSE tracks[t]]
            /\ srcObject' = "null"
            /\ events' = Append(events, StoppedEvent)
  /\ UNCHANGED <<trackType, transceivers, acq, localStream, streamTracks, endedOn,
                 negs, resourceUrl, posts>>
  /\ UNCHANGED <<neededEvents, trickleVars, scrollVars>>

(***************************************************************************)
(* constructor: media acquisition and its then/catch                       *)
(***************************************************************************)

\* Variant: the stream is bound to the video element only once a negotiation completed.
SrcObjectAfterNegotiation(stream) == IF NegotiationCompleted THEN stream ELSE srcObject

\* The constructor's then binds what the acquisition resolved with to the video element.
SrcObjectAfterThen(stream) == stream

\* The capture request resolves with a stream; the acquisition callback and the
\* constructor's then (or catch, when the callback throws) run.
AcquireResolve(hasAudio, videoLive) ==
  /\ acq = "pending"
  /\ trackType \in KnownTypes
  /\ hasAudio = TRUE \/ trackType = "screen"
  /\ videoLive = TRUE \/ trackType = "screen"
  /\ LET ts == CapturedTracks(trackType, hasAudio)
         captured == [t \in TrackIds |->
                        IF \E k \in 1..Len(ts) : ts[k] = t
                          THEN (IF t = "v" /\ ~videoLive THEN "ended" ELSE "live")
                          ELSE IF t = "s" /\ NeedsSynthAudio(trackType, ts) THEN "live"
                          ELSE tracks[t]]
     IN /\ streamTracks' = ts
        /\ tracks' = captured
        /\ IF pcClosed
             THEN \* addTransceiver throws on a closed connection: the promise rejects
                  /\ acq' = "threw"
                  /\ calls' = CallsAfterStart("catch")
                                  /\ UNCHANGED <<transceivers, endedOn, localStream, srcObject, events>>
             ELSE /\ acq' = "resolved"
                  /\ transceivers' = transceivers \o AcquiredTransceivers(trackType, ts)
                  /\ endedOn' = EndedListenerTrack(trackType)
                  /\ events' = IF DispatchesScreenLive(trackType, videoLive)
                                 THEN Append(events, "isScreenLive")
                                 ELSE events
                  /\ localStream' = "stream"
                  /\ srcObject' = SrcObjectAfterThen("stream")
                  /\ UNCHANGED calls
  /\ UNCHANGED <<trackType, pcClosed, negs, resourceUrl, posts>>
  /\ UNCHANGED <<neededEvents, trickleVars, scrollVars>>

\* The capture request rejects (permission denied, no device): catch calls disconnectStream().
AcquireReject ==
  /\ acq = "pending"
  /\ trackType \in KnownTypes
  /\ acq' = "rejected"
  /\ calls' = CallsAfterStart("catch")
  /\ UNCHANGED <<trackType, pcClosed, transceivers, tracks, localStream, streamTracks,
                 srcObject, endedOn, negs, resourceUrl, posts, events>>
  /\ UNCHANGED <<neededEvents, trickleVars, scrollVars>>

\* No branch matches trackType: the promise resolves with undefined.
AcquireNothing ==
  /\ acq = "pending"
  /\ trackType \notin KnownTypes
  /\ acq' = "resolved"
  /\ localStream' = "undefined"
  /\ srcObject' = SrcObjectAfterThen("undefined")
  /\ UNCHANGED <<trackType, pcClosed, transceivers, tracks, streamTracks, endedOn,
                 calls, negs, resourceUrl, posts, events>>
  /\ UNCHANGED <<neededEvents, trickleVars, scrollVars>>

(***************************************************************************)
(* negotiationneeded listener and the negotiation engine                   *)
(***************************************************************************)

InFlight(n) == negs[n].st \in {"offer", "posted"}

\* The listener may start an invocation of the engine.
ListenerMayStart == TRUE

\* Variant: the listener calls the engine a second time for the same event.
ListenerInvocationsTwice == <<[st |-> "offer"], [st |-> "offer"]>>

\* The engine invocations the listener makes for one event.
ListenerInvocations == <<[st |-> "offer"]>>

\* A negotiationneeded event is delivered: the listener calls the engine.
NegotiationNeeded ==
  /\ neededEvents < MaxNegotiations
  /\ ListenerMayStart
  /\ neededEvents' = neededEvents + 1
  /\ negs' = negs \o ListenerInvocations
  /\ UNCHANGED <<trackType, pcClosed, transceivers, tracks, acq, localStream,
                 streamTracks, srcObject, endedOn, calls, resourceUrl, posts, events>>
  /\ UNCHANGED <<trickleVars, scrollVars>>

\* Steps 1-3: the offer is created and applied (which a closed connection refuses),
\* the bounded wait for ICE gathering ends and the offer is POSTed.
NegPost(n) ==
  /\ negs[n].st = "offer"
  /\ negs' = [negs EXCEPT ![n].st = IF pcClosed THEN "failed" ELSE "posted"]
  /\ posts' = IF pcClosed THEN posts ELSE posts + 1
  /\ UNCHANGED <<trackType, pcClosed, transceivers, tracks, acq, localStream,
                 streamTracks, srcObject, endedOn, calls, resourceUrl, events>>
  /\ UNCHANGED <<neededEvents, trickleVars, scrollVars>>

\* Variant: late candidates are PATCHed whether or not the answer carried an ETag.
TrickleSupportedAlways(e) == TRUE

\* Step 5: the endpoint advertises trickle-ICE support with an ETag on its 201 answer.
TrickleSupported(e) == e = "present"

\* Steps 3-4, 6: the POST is answered; 201 with a Location yields the resource URL
\* and the answer is applied, anything else fails the negotiation.
NegAnswered(n, status, hasLocation) ==
  /\ negs[n].st = "posted"
  /\ IF status = 201 /\ hasLocation
       THEN /\ resourceUrl' = "/sessions/42"
            /\ negs' = [negs EXCEPT ![n].st = IF pcClosed THEN "failed" ELSE "done"]
       ELSE /\ negs' = [negs EXCEPT ![n].st = "failed"]
            /\ UNCHANGED resourceUrl
  /\ UNCHANGED <<trackType, pcClosed, transceivers, tracks, acq, localStream,
                 streamTracks, srcObject, endedOn, calls, posts, events>>
  /\ UNCHANGED <<neededEvents, scrollVars>>

\* The answer to the POST, the trickle capability it may carry left aside.
NegResponse(n, status, hasLocation) ==
  /\ NegAnswered(n, status, hasLocation)
  /\ UNCHANGED trickleVars

\* The answer to the POST, with the trickle capability a 201 answer advertises.
NegResponseTrickle(n, status, hasLocation, hasEtag) ==
  /\ NegAnswered(n, status, hasLocation)
  /\ etag' = IF status = 201 /\ hasLocation
               THEN (IF hasEtag THEN "present" ELSE "absent")
               ELSE etag
  /\ UNCHANGED <<candidates, patches>>

\* Step 5: a local ICE candidate arrives after the answer was applied; it is PATCHed to
\* the resource URL if the endpoint advertised trickle support and discarded otherwise.
LocalCandidate ==
  /\ NegotiationCompleted
  /\ ~pcClosed
  /\ candidates < MaxCandidates
  /\ candidates' = candidates + 1
  /\ patches' = IF TrickleSupported(etag) THEN patches + 1 ELSE patches
  /\ UNCHANGED <<trackType, pcClosed, transceivers, tracks, acq, localStream,
                 streamTracks, srcObject, endedOn, calls, negs, resourceUrl, posts, events>>
  /\ UNCHANGED <<neededEvents, etag, scrollVars>>

Next ==
  \/ Disconnect
  \/ TrackEnded
  \/ \E i \in 1..Len(calls), outcome \in {"ok", "errstatus", "reject"} : DeleteSettle(i, outcome)
  \/ \E hasAudio \in BOOLEAN, videoLive \in BOOLEAN : AcquireResolve(hasAudio, videoLive)
  \/ AcquireReject
  \/ AcquireNothing
  \/ NegotiationNeeded
  \/ \E n \in 1..Len(negs) : NegPost(n)
  \/ \E n \in 1..Len(negs), status \in {201, 500}, hasLocation \in BOOLEAN :
       NegResponse(n, status, hasLocation)

Spec == Init /\ [][Next]_vars

\* Every fetch the client awaits settles: the browser resolves or rejects the promise.
DeleteSettles == \E i \in 1..Len(calls), outcome \in {"ok", "errstatus", "reject"} : DeleteSettle(i, outcome)

LiveSpec == Init /\ [][Next]_vars /\ WF_vars(DeleteSettles)

\* The client together with the engine's trickle phase.
TrickleNext ==
  \/ Disconnect
  \/ TrackEnded
  \/ DeleteSettles
  \/ \E hasAudio \in BOOLEAN, videoLive \in BOOLEAN : AcquireResolve(hasAudio, videoLive)
  \/ AcquireReject
  \/ AcquireNothing
  \/ NegotiationNeeded
  \/ \E n \in 1..Len(negs) : NegPost(n)
  \/ \E n \in 1..Len(negs), status \in {201, 500}, hasLocation \in BOOLEAN,
          hasEtag \in BOOLEAN :
       NegResponseTrickle(n, status, hasLocation, hasEtag)
  \/ LocalCandidate

TrickleSpec == Init /\ [][TrickleNext]_vars

(***************************************************************************)
(* StreamContainer.svelte: the autoActive action of a carousel item        *)
(***************************************************************************)

ChannelIds == {"c1", "c2"}

RECURSIVE ListsUpTo(_, _)
ListsUpTo(S, n) ==
  IF n = 0 THEN {<<>>}
  ELSE LET shorter == ListsUpTo(S, n - 1)
       IN shorter \cup {Append(l, x) : l \in shorter, x \in S}

\* What an IntersectionObserver can pass to the callback.
EntryLists ==
  ListsUpTo([id : ChannelIds, isIntersecting : BOOLEAN], MaxEntries) \ {<<>>}

\* entries.find((entry) => entry.isIntersecting): its index, 0 if there is none.
FirstIntersecting(es) ==
  IF \E k \in 1..Len(es) : es[k].isIntersecting
    THEN CHOOSE k \in 1..Len(es) :
           es[k].isIntersecting /\ \A j \in 1..(k - 1) : ~es[j].isIntersecting
    ELSE 0

\* channels?.filter((channel) => channel?._id === id)[0]
ActiveChannel(chs, id) ==
  IF \E k \in 1..Len(chs) : chs[k] = id THEN id ELSE "undefined"

\* Variant: the last channel is compared instead of the second-to-last.
LoadMoreAtLast(chs, id) == Len(chs) # 0 /\ chs[Len(chs)] = id

\* channels?.length && channels[channels.length - 2]?._id == id
LoadMoreAt(chs, id) ==
  Len(chs) # 0 /\ (IF Len(chs) - 1 >= 1 THEN chs[Len(chs) - 1] = id ELSE FALSE)

\* The IntersectionObserver calls the callback with entries es.
Callback(es) ==
  /\ loadMore < MaxLoadMore
  /\ LET k == FirstIntersecting(es) IN
       IF k = 0
         THEN UNCHANGED <<channel, loadMore, navigated>>
         ELSE /\ channel' = ActiveChannel(channels, es[k].id)
              /\ loadMore' = IF LoadMoreAt(channels, es[k].id) THEN loadMore + 1 ELSE loadMore
              /\ navigated' = es[k].id
  /\ UNCHANGED channels
  /\ UNCHANGED <<trackType, pcClosed, transceivers, tracks, acq, localStream, streamTracks,
                 srcObject, endedOn, calls, negs, resourceUrl, posts, events,
                 neededEvents, trickleVars>>

\* The parent component passes a longer channels list.
ChannelsLoaded(id) ==
  /\ Len(channels) < MaxChannels
  /\ channels' = Append(channels, id)
  /\ UNCHANGED <<channel, loadMore, navigated>>
  /\ UNCHANGED <<trackType, pcClosed, transceivers, tracks, acq, localStream, streamTracks,
                 srcObject, endedOn, calls, negs, resourceUrl, posts, events,
                 neededEvents, trickleVars>>

ScrollInit ==
  /\ ClientInit
  /\ channels \in ListsUpTo(ChannelIds, MaxChannels)
  /\ channel \in {"undefined"} \cup {channels[k] : k \in 1..Len(channels)}
  /\ loadMore = 0
  /\ navigated = "none"

ScrollNext ==
  \/ \E es \in EntryLists : Callback(es)
  \/ \E id \in ChannelIds : ChannelsLoaded(id)

ScrollSpec == ScrollInit /\ [][ScrollNext]_vars

(***************************************************************************)
(* Properties                                                              *)
(***************************************************************************)

CallIds == 1..Len(calls)

StepIds == UNION {{<<i, k>> : k \in 1..Len(calls[i].steps)} : i \in CallIds}

DeleteCount == Cardinality({p \in StepIds : calls[p[1]].steps[p[2]].op = "DELETE"})

Disconnected == \E i \in CallIds : calls[i].st = "done"

StoppedEventDispatched == \E k \in 1..Len(events) : events[k] = StoppedEvent

LocalStreamStopped == \A k \in 1..Len(LocalStreamTracks) : tracks[LocalStreamTracks[k]] = "ended"

\* Nothing is pending: acquisition has settled, no DELETE and no negotiation is awaited.
Quiescent ==
  /\ acq # "pending"
  /\ \A i \in CallIds : calls[i].st # "awaitDelete"
  /\ \A n \in 1..Len(negs) : ~InFlight(n)

\* C1: any two disconnectStream calls on one client produce exactly one DELETE request
\* in total, and the second call does not end in an error.
C1_TwoCallsOneDelete ==
  Len(calls) >= 2 => (DeleteCount = 1 /\ calls[2].st # "threw")

\* C2: at every moment at most one invocation of the negotiation engine is in flight.
C2_OneNegotiationInFlight ==
  Cardinality({n \in 1..Len(negs) : InFlight(n)}) <= 1

\* C3: when the DELETE of a disconnectStream call fails (the request rejects or gets an
\* error status), the step that ends the call leaves the peer connection closed, the
\* tracks of localStream stopped, srcObject null and the stopped event dispatched.
C3_FailedDeleteStillTearsDown ==
  [][\A i \in CallIds : \A outcome \in {"errstatus", "reject"} :
       DeleteSettle(i, outcome) =>
         /\ pcClosed'
         /\ LocalStreamStopped'
         /\ srcObject' = "null"
         /\ Len(events') = Len(events) + 1
         /\ events'[Len(events')] = StoppedEvent]_vars

\* C4: if disconnectStream was called before a negotiation completed, then once nothing
\* is pending the peer connection is closed and every captured track is stopped.
C4_EarlyDisconnectReleasesAll ==
  ((\E i \in CallIds : calls[i].early) /\ Quiescent) =>
    (pcClosed /\ \A t \in {"v", "a"} : tracks[t] # "live")

\* C5: when the capture request rejects, the teardown it triggers sends no HTTP request.
C5_FailedAcquisitionNoSignaling ==
  acq = "rejected" =>
    \A i \in CallIds : calls[i].src = "catch" =>
      \A k \in 1..Len(calls[i].steps) : calls[i].steps[k].op \notin {"DELETE", "POST", "PATCH"}

\* C6: every DELETE request goes to a resource URL learned from a 201 POST response.
C6_DeleteOnlyToLearnedResource ==
  \A i \in CallIds : \A k \in 1..Len(calls[i].steps) :
    calls[i].steps[k].op = "DELETE" =>
      (resourceUrl # "none" /\ calls[i].steps[k].arg = resourceUrl)

\* C7: after a disconnectStream call has completed, the track of every transceiver of the
\* peer connection is stopped, the synthesized silent audio track included.
C7_AllAttachedTracksStopped ==
  Disconnected =>
    \A k \in 1..Len(transceivers) : tracks[transceivers[k].track] = "ended"

\* C8: once a disconnectStream call has completed, no step sets localStream or srcObject
\* to a stream, starts a negotiation, sends an HTTP request or dispatches an event.
C8_DisconnectedIsAbsorbing ==
  [][Disconnected =>
       /\ (localStream' = "stream" => localStream = "stream")
       /\ (srcObject' = "stream" => srcObject = "stream")
       /\ Len(negs') = Len(negs)
       /\ posts' = posts
       /\ Len(calls') = Len(calls)
       /\ events' = events]_vars

\* C9: within each disconnectStream call the DELETE is sent first and its response is
\* awaited before anything else happens, the peer connection is closed before any track
\* is stopped, and nothing is released except by a call whose DELETE has been answered.
C9_TeardownOrder ==
  /\ \A i \in CallIds :
       LET st == calls[i].steps IN
         /\ st[1].op = "DELETE"
         /\ \A k \in 2..Len(st) : st[k].op # "DELETE"
         /\ calls[i].st # "done" => Len(st) = 1
         /\ calls[i].st = "done" => \E k \in 2..Len(st) : st[k].op = "close"
         /\ \A j \in 1..Len(st), k \in 1..Len(st) :
              (st[j].op = "close" /\ st[k].op \in {"stop", "srcObject", "event"}) => j < k
  /\ (pcClosed \/ srcObject = "null" \/ StoppedEventDispatched) => Disconnected

\* A call has run to its end on a client holding a stream and has stopped a track.
C9_Witness ==
  \E i \in CallIds :
    /\ calls[i].st = "done"
    /\ \E k \in 1..Len(calls[i].steps) : calls[i].steps[k].op = "stop"

KindCount(kind) ==
  Cardinality({k \in 1..Len(transceivers) : transceivers[k].kind = kind})

\* C10: after a successful acquisition the peer connection holds exactly one send-only
\* transceiver per track and no other: webcam 1 video; audio 1 audio; screen 1 video and
\* 1 audio, the captured audio track if the capture has one, else the synthesized one.
C10_TransceiversMatchTracks ==
  (acq = "resolved" /\ trackType \in KnownTypes) =>
    /\ \A k \in 1..Len(transceivers) :
         /\ transceivers[k].direction = "sendonly"
         /\ tracks[transceivers[k].track] # "none"
         /\ transceivers[k].kind = KindOf(transceivers[k].track)
    /\ trackType = "webcam" => (KindCount("video") = 1 /\ KindCount("audio") = 0)
    /\ trackType = "audio" => (KindCount("video") = 0 /\ KindCount("audio") = 1)
    /\ trackType = "screen" =>
         /\ KindCount("video") = 1
         /\ KindCount("audio") = 1
         /\ \A k \in 1..Len(transceivers) :
              transceivers[k].kind = "audio" =>
                transceivers[k].track = (IF HasAudioTrack(streamTracks) THEN "a" ELSE "s")

\* A screen capture without audio has been acquired and attached.
C10_Witness ==
  /\ trackType = "screen"
  /\ acq = "resolved"
  /\ ~HasAudioTrack(streamTracks)
  /\ Len(transceivers) = 2

\* The listener of the acquired track's 'ended' event has called disconnectStream.
EndedEventHandled == \E i \in CallIds : calls[i].src = "ended"

\* A disconnectStream call started by the 'ended' listener got no response: its fetch rejected.
EndedCallGotNoResponse == \E i \in CallIds : calls[i].src = "ended" /\ calls[i].st = "threw"

CapturedTracksStopped == \A k \in 1..Len(streamTracks) : tracks[streamTracks[k]] = "ended"

\* C11: once the acquired track's 'ended' event has been delivered, and provided the
\* DELETE it triggers gets a response, the client eventually is disconnected: the peer
\* connection closed, the stream's tracks stopped and the stopped event dispatched.
C11_TrackEndedTearsDown ==
  EndedEventHandled ~>
    (EndedCallGotNoResponse
       \/ (Disconnected /\ pcClosed /\ CapturedTracksStopped /\ StoppedEventDispatched))

\* The 'ended' listener's call has completed on a torn-down client.
C11_Witness ==
  \E i \in CallIds :
    /\ calls[i].src = "ended"
    /\ calls[i].st = "done"
    /\ pcClosed
    /\ CapturedTracksStopped
    /\ StoppedEventDispatched

StoppedEventCount == Cardinality({k \in 1..Len(events) : events[k] = StoppedEvent})

CloseCount == Cardinality({p \in StepIds : calls[p[1]].steps[p[2]].op = "close"})

\* C12: over the lifetime of one client, whatever the disconnectStream calls, the stopped
\* event is dispatched at most once and the peer connection is closed at most once.
C12_OnlyFirstCallHasEffect ==
  StoppedEventCount <= 1 /\ CloseCount <= 1

ScreenLiveCount == Cardinality({k \in 1..Len(events) : events[k] = "isScreenLive"})

\* C13: isScreenLive is dispatched only by a screen client, and only in the step in which
\* its display capture succeeds with a live video track; no webcam, audio or failed
\* acquisition dispatches it.
C13_ScreenLiveOnlyFromLiveScreenCapture ==
  [][ScreenLiveCount' # ScreenLiveCount =>
       /\ trackType = "screen"
       /\ acq = "pending" /\ acq' = "resolved"
       /\ localStream' = "stream"
       /\ tracks'["v"] = "live"
       /\ ScreenLiveCount = 0 /\ ScreenLiveCount' = 1]_vars

\* A screen client has dispatched isScreenLive.
C13_Witness == trackType = "screen" /\ ScreenLiveCount = 1

\* C14: while the last 201 answer carried a Location but no ETag, a local ICE candidate
\* that arrives causes no PATCH request.
C14_NoPatchWithoutTrickleSupport ==
  [][(etag = "absent" /\ candidates' # candidates) => patches' = patches]_vars

\* A candidate arrived at a client whose endpoint answered without ETag, and no PATCH was sent.
C14_Witness == etag = "absent" /\ candidates > 0 /\ patches = 0

\* C15: the engine is invoked exactly once per negotiationneeded event and never
\* otherwise: none before the first event, none added when a negotiation fails.
C15_OneInvocationPerEvent ==
  /\ Len(negs) = neededEvents
  /\ posts <= neededEvents

\* A negotiation has failed and no other invocation was started.
C15_Witness ==
  /\ neededEvents = 1
  /\ Len(negs) = 1
  /\ negs[1].st = "failed"

\* C16: the step in which a capture resolves with a stream on a client that has not been
\* disconnected stores it as localStream and binds it to srcObject, whatever the state
\* of negotiation; and no step of a negotiation changes srcObject or localStream.
C16_StreamBoundOnAcquisition ==
  [][/\ (streamTracks = <<>> /\ streamTracks' # <<>> /\ ~Disconnected) =>
          (localStream' = "stream" /\ srcObject' = "stream")
     /\ (negs' # negs) => (srcObject' = srcObject /\ localStream' = localStream)]_vars

\* A stream is bound to the video element while a negotiation is still in flight.
C16_Witness ==
  /\ srcObject = "stream"
  /\ localStream = "stream"
  /\ \E n \in 1..Len(negs) : InFlight(n)

\* C17: in the intersection callback loadMore is dispatched exactly when an entry is
\* intersecting, the channels list is non-empty and the id of the first intersecting
\* entry is the _id of the second-to-last channel; in every case with an intersecting
\* entry the active channel is updated and the page navigates to that id.
C17_LoadMoreAtSecondToLast ==
  [][\A es \in EntryLists :
       Callback(es) =>
         LET hit == {k \in 1..Len(es) : es[k].isIntersecting}
             first == CHOOSE k \in hit : \A j \in hit : k <= j
             n == Len(channels)
         IN IF hit = {}
              THEN loadMore' = loadMore /\ navigated' = navigated /\ channel' = channel
              ELSE /\ (loadMore' = loadMore + 1) <=>
                        (n >= 2 /\ channels[n - 1] = es[first].id)
                   /\ loadMore' \in {loadMore, loadMore + 1}
                   /\ navigated' = es[first].id
                   /\ channel' \in {es[first].id, "undefined"}
                   /\ (channel' = es[first].id) <=>
                        (\E k \in 1..n : channels[k] = es[first].id)]_vars

\* loadMore was dispatched for the second-to-last of three channels, and the page
\* navigated there.
C17_Witness ==
  /\ Len(channels) = 3
  /\ loadMore = 1
  /\ navigated = channels[2]
  /\ channel = channels[2]
  /\ channels[3] # channels[2]

\* C18: a client whose trackType is none of 'screen', 'webcam', 'audio' requests no
\* capture, adds no transceiver, registers no 'ended' listener, keeps localStream
\* undefined, never takes the rejection path and never calls disconnectStream itself: it
\* is torn down only by explicit calls.
C18_UnknownTypeAcquiresNothing ==
  trackType = "camera" =>
    /\ transceivers = <<>>
    /\ streamTracks = <<>>
    /\ \A t \in TrackIds : tracks[t] = "none"
    /\ endedOn = "none"
    /\ localStream \in {"unset", "undefined"}
    /\ srcObject # "stream"
    /\ acq \in {"pending", "resolved"}
    /\ events = <<>> \/ Disconnected
    /\ \A i \in CallIds : calls[i].src = "explicit"
    /\ (calls = <<>>) => ~pcClosed

\* A 'camera' client whose acquisition resolved with nothing and that nobody disconnected.
C18_Witness ==
  /\ trackType = "camera"
  /\ acq = "resolved"
  /\ localStream = "undefined"
  /\ calls = <<>>
  /\ ~pcClosed

DoneCalls == {i \in CallIds : calls[i].st = "done"}

\* C19: the stopped event is the last thing a disconnectStream call does: when it is
\* dispatched the peer connection has been closed, every track of localStream stopped
\* and srcObject set to null, by that same call.
C19_StoppedEventAfterRelease ==
  /\ [](/\ StoppedEventCount = Cardinality(DoneCalls)
        /\ \A i \in DoneCalls :
             LET st == calls[i].steps IN
               /\ st[Len(st)] = Entry("event", StoppedEvent)
               /\ \A k \in 1..(Len(st) - 1) : st[k].op # "event"
               /\ \E k \in 1..(Len(st) - 1) : st[k] = Entry("close", "pc")
               /\ \E k \in 1..(Len(st) - 1) : st[k] = Entry("srcObject", "null"))
  /\ [][StoppedEventCount' # StoppedEventCount =>
          /\ pcClosed'
          /\ srcObject' = "null"
          /\ LocalStreamStopped'
          /\ \E i \in DoneCalls' \ DoneCalls :
               \A k \in 1..Len(LocalStreamTracks) :
                 \E j \in 1..(Len(calls'[i].steps) - 1) :
                   calls'[i].steps[j] = Entry("stop", LocalStreamTracks[k])]_vars

\* The stopped event was dispatched by a call that had a stream to release.
C19_Witness ==
  \E i \in DoneCalls :
    /\ localStream = "stream"
    /\ StoppedEventCount = 1
    /\ \E k \in 1..Len(calls[i].steps) : calls[i].steps[k].op = "stop"
====
